---- MODULE Spec2Model ----
(***************************************************************************)
(* Model of src/main.mjs: the pair generator.  The script reads the state   *)
(* file last_brief.json (if any) and students.json, pairs the students in   *)
(* a do/while loop guarded by hasSameGroup, writes the groups back to the   *)
(* state file and prints them.                                              *)
(*                                                                         *)
(* JavaScript values are records [kind, val, ref, elems]: strings carry     *)
(* val, arrays carry their elements and a reference (object identity),      *)
(* null and undefined carry nothing.  A JSON text is modelled by its        *)
(* document: nested sequences of strings and nulls, without identity.       *)
(***************************************************************************)
EXTENDS Integers, Sequences, FiniteSets, TLC

\* ---- bounds of the model ----
MaxPool == 4
MaxPrev == 2
MaxAttempts == 3

\* identifiers the students file and the state file draw from
Names == <<"A", "B", "C", "D", "E", "F", "G", "H">>

VARIABLES file, students, last_brief, peoples, groups, leader, member,
          pc, attempts, output, nextRef

vars == <<file, students, last_brief, peoples, groups, leader, member,
          pc, attempts, output, nextRef>>

Min(a, b) == IF a < b THEN a ELSE b
Max(a, b) == IF a > b THEN a ELSE b

\* ---- JavaScript values ----
Str(s) == [kind |-> "string", val |-> s, ref |-> 0, elems |-> <<>>]
Null == [kind |-> "null", val |-> "", ref |-> 0, elems |-> <<>>]
Undefined == [kind |-> "undefined", val |-> "", ref |-> 0, elems |-> <<>>]
Arr(r, es) == [kind |-> "array", val |-> "", ref |-> r, elems |-> es]

\* the comparison Array.prototype.includes uses: primitives by value,
\* objects (arrays) by identity
SameValueZero(x, y) ==
    IF x.kind = "array" \/ y.kind = "array"
    THEN x.kind = y.kind /\ x.ref = y.ref
    ELSE x.kind = y.kind /\ x.val = y.val

Includes(arr, x) == \E i \in DOMAIN arr.elems : SameValueZero(arr.elems[i], x)

\* Object.values of an array: its elements in index order
ObjectValues(o) == o.elems

\* ---- JSON ----
\* JSON.stringify(groups): an array of arrays; undefined inside an array
\* is written as null, and object identity is not written at all
JSONstringify(gs) ==
    [i \in 1..Len(gs) |->
        [k \in 1..Len(gs[i].elems) |->
            IF gs[i].elems[k].kind = "undefined" THEN Null ELSE gs[i].elems[k]]]

\* JSON.parse of a state file: fresh arrays, references from base upwards
JSONparse(doc, base) ==
    Arr(base, [i \in 1..Len(doc) |-> Arr(base + i, doc[i])])

\* ---- hasSameGroup (main.mjs 13-24) ----
\* some pair of cand has all its members together in one pair of prev
Collides(cand, prev) ==
    /\ prev.kind = "array"
    /\ \E i \in DOMAIN cand :
          \E j \in DOMAIN prev.elems :
             \A k \in DOMAIN cand[i].elems :
                Includes(prev.elems[j], cand[i].elems[k])

hasSameGroup_perPair(group, lb) == Collides(group, lb)

hasSameGroup_nullCollides(group, lb) ==
    IF lb.kind = "null" THEN TRUE
    ELSE \E j \in DOMAIN ObjectValues(lb) :
            \A i \in DOMAIN group : Includes(ObjectValues(lb)[j], group[i])

hasSameGroup(group, lb) ==
    IF lb.kind = "null" THEN FALSE
    ELSE \E j \in DOMAIN ObjectValues(lb) :
            \A i \in DOMAIN group : Includes(ObjectValues(lb)[j], group[i])

\* ---- the pieces of one pairing step (main.mjs 30-33) ----
\* Math.floor(Math.random() * len): Math.random() is in [0, 1)
RandomFloor(len) == IF len = 0 THEN {0} ELSE 0..(len - 1)

MemberIndex_plus(r) == r + 1

MemberIndex(r) == r - 1

\* Array.prototype.splice(start, deleteCount) without inserted items
Splice(arr, start, deleteCount) ==
    LET len == Len(arr)
        actualStart == IF start < 0 THEN Max(len + start, 0) ELSE Min(start, len)
        dc == Min(Max(deleteCount, 0), len - actualStart)
    IN  [removed   |-> SubSeq(arr, actualStart + 1, actualStart + dc),
         remaining |-> SubSeq(arr, 1, actualStart)
                          \o SubSeq(arr, actualStart + dc + 1, len)]

\* const [x] = arr
First(arr) == IF Len(arr) = 0 THEN Undefined ELSE arr[1]

AppendGroup_noSpread(gs, pair) == <<pair>>

AppendGroup(gs, pair) == gs \o <<pair>>

\* ---- initial states ----
Pool(n) == [i \in 1..n |-> Str(Names[i])]

PrevNames == {Names[i] : i \in 1..MaxPool}

\* a pair as a previous run writes it: [leader, member] or [leader, null]
PrevPairs ==
    {<<Str(p[1]), Str(p[2])>> : p \in {q \in PrevNames \X PrevNames : q[1] # q[2]}}
        \cup {<<Str(a), Null>> : a \in PrevNames}

RECURSIVE SeqsUpTo(_, _)
SeqsUpTo(S, n) ==
    IF n = 0 THEN {<<>>}
    ELSE LET shorter == SeqsUpTo(S, n - 1)
         IN  shorter \cup {Append(s, x) : s \in {t \in shorter : Len(t) = n - 1}, x \in S}

PrevDocs == SeqsUpTo(PrevPairs, MaxPrev)

FileStates ==
    {[exists |-> FALSE, text |-> <<>>]}
        \cup {[exists |-> TRUE, text |-> d] : d \in PrevDocs}

Init ==
    /\ file \in FileStates
    /\ students \in {Pool(n) : n \in 0..MaxPool}
    /\ last_brief = IF file.exists THEN JSONparse(file.text, 1) ELSE Null
    /\ nextRef = IF file.exists THEN Len(file.text) + 2 ELSE 1
    /\ peoples = students
    /\ groups = <<>>
    /\ leader = Undefined
    /\ member = Undefined
    /\ pc = "do"
    /\ attempts = 0
    /\ output = <<>>

\* ---- actions ----
\* entering the body of the do/while (line 28)
BeginAttempt ==
    /\ pc = "do"
    /\ pc' = "while"
    /\ attempts' = Min(attempts + 1, MaxAttempts)
    /\ UNCHANGED <<file, students, last_brief, peoples, groups, leader, member,
                   output, nextRef>>

\* one iteration of the inner while (lines 29-34)
PairStep ==
    /\ pc = "while"
    /\ Len(peoples) > 0
    /\ LET ldr  == peoples[Len(peoples)]
           rest == SubSeq(peoples, 1, Len(peoples) - 1)
       IN  \E r \in RandomFloor(Len(rest)) :
              LET sp  == Splice(rest, MemberIndex(r), 1)
                  mbr == First(sp.removed)
              IN  /\ leader' = ldr
                  /\ member' = mbr
                  /\ peoples' = sp.remaining
                  /\ groups' = AppendGroup(groups, Arr(nextRef, <<ldr, mbr>>))
    /\ nextRef' = nextRef + 1
    /\ UNCHANGED <<file, students, last_brief, pc, attempts, output>>

\* the inner while ends (line 29, condition false)
ExitWhile ==
    /\ pc = "while"
    /\ Len(peoples) = 0
    /\ pc' = "until"
    /\ UNCHANGED <<file, students, last_brief, peoples, groups, leader, member,
                   attempts, output, nextRef>>

\* line 35, condition true: the body runs again
Retry ==
    /\ pc = "until"
    /\ hasSameGroup(groups, last_brief)
    /\ pc' = "do"
    /\ UNCHANGED <<file, students, last_brief, peoples, groups, leader, member,
                   attempts, output, nextRef>>

\* line 35, condition false: the groups are accepted
Accept ==
    /\ pc = "until"
    /\ ~hasSameGroup(groups, last_brief)
    /\ pc' = "write"
    /\ UNCHANGED <<file, students, last_brief, peoples, groups, leader, member,
                   attempts, output, nextRef>>

\* line 37
WriteFile ==
    /\ pc = "write"
    /\ file' = [exists |-> TRUE, text |-> JSONstringify(groups)]
    /\ pc' = "log"
    /\ UNCHANGED <<students, last_brief, peoples, groups, leader, member,
                   attempts, output, nextRef>>

\* line 38
Log ==
    /\ pc = "log"
    /\ output' = groups
    /\ pc' = "done"
    /\ UNCHANGED <<file, students, last_brief, peoples, groups, leader, member,
                   attempts, nextRef>>

Next ==
    \/ BeginAttempt
    \/ PairStep
    \/ ExitWhile
    \/ Retry
    \/ Accept
    \/ WriteFile
    \/ Log

Spec == Init /\ [][Next]_vars

\* the script is one thread that keeps running until it exits
FairSpec == Spec /\ WF_vars(Next)

\* ---- vocabulary of the properties ----
PoolSize == Len(students)

EvenPool == PoolSize % 2 = 0

Accepted == pc \in {"write", "log", "done"}

PreviousAbsent == last_brief.kind = "null"

\* how many slots of the groups hold the value p
Occurrences(gs, p) ==
    Cardinality({ik \in (DOMAIN gs) \X {1, 2} :
                    /\ ik[2] \in DOMAIN gs[ik[1]].elems
                    /\ gs[ik[1]].elems[ik[2]] = p})

EveryoneOnce(gs) == \A i \in DOMAIN students : Occurrences(gs, students[i]) = 1

FullPair(g) ==
    /\ g.kind = "array"
    /\ Len(g.elems) = 2
    /\ g.elems[1].kind = "string"
    /\ g.elems[2].kind = "string"
    /\ g.elems[1] # g.elems[2]

\* the previous grouping is a partition of the pool into pairs
PreviousPartitionsPool ==
    /\ last_brief.kind = "array"
    /\ 2 * Len(last_brief.elems) = PoolSize
    /\ \A j \in DOMAIN last_brief.elems : FullPair(last_brief.elems[j])
    /\ EveryoneOnce(last_brief.elems)

RemoveAt(arr, p) == SubSeq(arr, 1, p - 1) \o SubSeq(arr, p + 1, Len(arr))

\* ---- C1 ----
\* C1: with an even pool of at least 4 and a previous grouping that
\* partitions the pool into pairs, the accepted, persisted and reported
\* grouping has no pair whose two members are together in a previous pair.
C1_NoCollision ==
    (pc = "done" /\ EvenPool /\ PoolSize >= 4 /\ PreviousPartitionsPool)
        => /\ ~Collides(output, last_brief)
           /\ ~Collides(groups, last_brief)

\* ---- C2 ----
\* C2: for an even pool and any previous grouping, the accepted grouping
\* has exactly pool-size/2 pairs, each of two distinct participants, and
\* every participant of the pool is in exactly one of them.
C2_Partition ==
    (Accepted /\ EvenPool)
        => /\ 2 * Len(groups) = PoolSize
           /\ \A i \in DOMAIN groups : FullPair(groups[i])
           /\ EveryoneOnce(groups)

C2_Witness ==
    /\ pc = "done"
    /\ PoolSize >= 4
    /\ EvenPool
    /\ last_brief.kind = "array"
    /\ Len(groups) >= 2

\* ---- C3 ----
\* C3: at the loop condition, hasSameGroup(groups, last_brief) is true
\* exactly when the previous grouping is present and some pair of the
\* candidate has both members together in one pair of the previous one.
C3_CollisionPredicate ==
    pc = "until" => (hasSameGroup(groups, last_brief) <=> Collides(groups, last_brief))

\* ---- C4 ----
\* C4: with an even pool of at least 4 participants, whatever the previous
\* grouping, the run eventually ends with an accepted grouping.
C4_Termination ==
    (EvenPool /\ PoolSize >= 4) => <>(pc = "done" /\ Len(output) > 0)

C4_Witness ==
    /\ pc = "done"
    /\ EvenPool
    /\ PoolSize >= 4
    /\ Collides(output, last_brief)

\* ---- C5 ----
\* C5: when there is no previous grouping the body of the loop runs
\* exactly once: the first candidate is accepted and the run ends.
C5_FirstRun ==
    /\ [](PreviousAbsent => (attempts <= 1 /\ (Accepted => attempts = 1)))
    /\ (PreviousAbsent => <>(pc = "done"))

C5_Witness ==
    /\ pc = "done"
    /\ PreviousAbsent
    /\ file.exists
    /\ attempts = 1
    /\ PoolSize > 0

\* ---- C6 ----
\* C6: after a run on a non-empty pool, hasSameGroup judges the generated
\* grouping equal to the grouping read back from the state file.
C6_IdempotentPersistence ==
    (pc = "done" /\ PoolSize > 0)
        => hasSameGroup(groups, JSONparse(file.text, nextRef))

\* ---- C7 ----
\* C7: with an empty pool the run completes with the empty grouping,
\* whatever the previous grouping is.
C7_EmptyPoolCompletes ==
    (PoolSize = 0) => <>(pc = "done" /\ output = <<>>)

C9_MemberChoice ==
    [][(pc = "while" /\ Len(peoples) >= 2)
        => LET rest == SubSeq(peoples, 1, Len(peoples) - 1)
           IN  /\ leader' = peoples[Len(peoples)]
               /\ \E p \in DOMAIN rest :
                     /\ member' = rest[p]
                     /\ peoples' = RemoveAt(rest, p)
               /\ member' # leader'
               /\ groups'[Len(groups')].elems = <<leader', member'>>
               /\ \A p \in DOMAIN rest :
                     \E r \in RandomFloor(Len(rest)) :
                        Splice(rest, MemberIndex(r), 1).removed = <<rest[p]>>]_vars

\* the member just taken was the last element of the remaining list
C9_Witness ==
    /\ pc = "while"
    /\ PoolSize >= 4
    /\ Len(groups) = 1
    /\ leader = students[PoolSize]
    /\ member = students[PoolSize - 1]

\* ---- C10 ----
\* C10: with an odd pool of n participants and no previous grouping the
\* run ends with (n+1)/2 pairs holding every participant once; the last
\* pair is the leftover leader with no member, the others are full pairs.
C10_OddPool ==
    /\ []((~EvenPool /\ PreviousAbsent /\ Accepted)
            => /\ 2 * Len(groups) = PoolSize + 1
               /\ EveryoneOnce(groups)
               /\ Len(groups[Len(groups)].elems) = 2
               /\ groups[Len(groups)].elems[1].kind = "string"
               /\ groups[Len(groups)].elems[2] = Undefined
               /\ \A i \in 1..(Len(groups) - 1) : FullPair(groups[i]))
    /\ ((~EvenPool /\ PreviousAbsent) => <>(pc = "done"))

C10_Witness ==
    /\ pc = "done"
    /\ PoolSize = 3
    /\ PreviousAbsent
    /\ Len(output) = 2

====
